---- MODULE Spec2Model ----
(***************************************************************************)
(* A model of the batch analyses of GRAD-STUDY/03-IMPLEMENTATION/CODE:     *)
(*   player-integrated-analysis.py  analyze_player_trading,                *)
(*                                  classify_trading_pattern,              *)
(*                                  calculate_comprehensive_metrics,       *)
(*                                  analyze_games_with_players             *)
(*   analyze-rugs-data.py           analyze_games                          *)
(*   tick-by-tick-analysis.py       analyze_all_games_tick_by_tick         *)
(*                                                                         *)
(* Numbers.  Python floats are modelled by exact integers and fractions:   *)
(*   - a trade quantity is a whole number of sixteenths (QtyScale units    *)
(*     make 1.0), so every sum of quantities is exact in binary floating   *)
(*     point as well;                                                      *)
(*   - a price is a whole number of 1e-7 units, so that round(price, 6)    *)
(*     has something to round;                                             *)
(*   - a quotient is the pair <<numerator, denominator>>, denominator > 0. *)
(* Python's None is the empty sequence <<>> and a present value v is <<v>>.*)
(***************************************************************************)
EXTENDS Integers, Sequences, FiniteSets, TLC

VARIABLES
    pc,            \* position of the running analysis
    player_stats,  \* analyze_player_trading: player id -> aggregate
    n_events,      \* events of the game consumed by the fold so far
    game,          \* the game record calculate_comprehensive_metrics works on
    patterns,      \* calculate_comprehensive_metrics: player id -> label
    result,        \* what calculate_comprehensive_metrics returned or raised
    script,        \* which batch analysis runs
    input,         \* the lines of the input file
    li,            \* lines read so far
    games,         \* the parsed, truthy values of the read loop
    gi,            \* games handled by the processing loop so far
    rows,          \* csv_data / comprehensive_data / all_tick_records
    log,           \* messages printed by the two except handlers
    outfile,       \* the output table: None, or <<[header, rows]>>
    tick_records,  \* analyze_tick_progression: the records appended so far
    analyzer,      \* the ProbabilityGameAnalyzer: None, or <<its fields>>
    strategy,      \* "fixed": simulate_fixed_betting, "martingale"
    stop_tick,     \* the stopping tick of the game replayed
    bankroll,      \* argument of the simulation
    initial_bet,   \* argument initial_bet (bet_size of the fixed strategy)
    current_bankroll,
    current_bet,
    bets_made,
    consecutive_losses,
    t              \* current tick of the replay

vars == <<pc, player_stats, n_events, game, patterns, result,
          script, input, li, games, gi, rows, log, outfile,
          tick_records, analyzer, strategy, stop_tick, bankroll, initial_bet,
          current_bankroll, current_bet, bets_made, consecutive_losses, t>>

gameVars == <<player_stats, n_events, game, patterns, result>>
batchVars == <<script, input, li, games, gi, rows, log, outfile>>
tickVars == <<tick_records>>
betVars == <<analyzer, strategy, stop_tick, bankroll, initial_bet,
             current_bankroll, current_bet, bets_made, consecutive_losses, t>>

None == <<>>
Some(v) == <<v>>

\* Python's `x or 0` for x an int or None
OrZero(x) == IF x = None THEN 0 ELSE x[1]

Max(a, b) == IF a >= b THEN a ELSE b
Min(a, b) == IF a <= b THEN a ELSE b

RECURSIVE SumOver(_, _)
SumOver(f, S) ==
    IF S = {} THEN 0
    ELSE LET x == CHOOSE y \in S : TRUE IN f[x] + SumOver(f, S \ {x})

MaxOver(f, S) == CHOOSE m \in {f[x] : x \in S} : \A x \in S : f[x] <= m

(***************************************************************************)
(* Fractions                                                               *)
(***************************************************************************)
Abs(a) == IF a < 0 THEN -a ELSE a

RECURSIVE Gcd(_, _)
Gcd(a, b) == IF b = 0 THEN a ELSE Gcd(b, a % b)

\* n / d in lowest terms, d > 0
Frac(n, d) == LET g == Gcd(Abs(n), d) IN <<n \div g, d \div g>>
FracLe(a, b) == a[1] * b[2] <= b[1] * a[2]
FracAdd(a, b) == Frac(a[1] * b[2] + b[1] * a[2], a[2] * b[2])
FracScale(k, a) ==
    LET g == Gcd(Abs(k), a[2]) IN Frac((k \div g) * a[1], a[2] \div g)
InUnitInterval(a) == FracLe(Frac(0, 1), a) /\ FracLe(a, Frac(1, 1))

(***************************************************************************)
(* Bounds of the model                                                     *)
(***************************************************************************)
MaxEvents == 5      \* events of one game folded by analyze_player_trading
MaxLines == 3       \* lines of an input file
MaxTrades == 3      \* events of the game analyze_player_trading is given
MaxStopTick == 10   \* largest stopping tick of a replayed game
MaxEntries == 3     \* price-progression entries of the game of the tick loop
MaxTickTrades == 2  \* events of the game of the tick loop

(***************************************************************************)
(* Program constants                                                       *)
(***************************************************************************)
QtyScale == 16           \* model units per 1.0 of quantity
InstarugTicks == 11      \* is_instarug = duration_ticks < 11
DurationNorm == 500      \* duration_risk = max(0, 1 - duration_ticks / 500)
ActivityNorm == 100      \* activity_risk = min(total_trades / 100, 1)
HighLevel == 30          \* high_level_players: level > 30
ScalperTrades == 5
WhaleTrades == 2
FlipperTrades == 4

(***************************************************************************)
(* Inputs                                                                  *)
(***************************************************************************)
Players == {"p1"}                          \* players of the stepwise fold
TradeTypes == {"buy", "sell", "unknown"}   \* "unknown": type absent or other
QtySet == {0, 1, 24}                       \* 0, 0.0625, 1.5
TickSet == {1, 8}
LevelSet == {0, 5}
AmountSet == {2}                           \* cost of a buy, proceeds of a sell

\* data of a newTrade event after the .get defaults of lines 25-30, 35-36
TradeData ==
    [playerId : Players, type : TradeTypes, qty : QtySet,
     tickIndex : TickSet, level : LevelSet, amount : AmountSet]

Trade(p, ty, q, tick, l) ==
    [playerId |-> p, type |-> ty, qty |-> q, tickIndex |-> tick, level |-> l,
     amount |-> 2]

\* analysis.finalTick, analysis.totalTrades (any JSON integer is accepted)
FinalTicks == {-50, 5, 20}
TotalTradesSet == {-10, 40, 250}

\* priceProgression entries {tick, price}; prices 1.5, 1.0000004, 2.0000007
PP(tick, price) == [tick |-> tick, price |-> price]
PriceProgressions ==
    { <<>>,
      <<PP(5, 15000000)>>,
      <<PP(4, 10000004), PP(5, 15000000)>>,
      <<PP(3, 20000007), PP(4, 10000004), PP(5, 15000000)>> }

Labels == {"scalper", "whale", "hodler", "flipper",
           "early_bird", "late_joiner", "regular"}

(***************************************************************************)
(* analyze_player_trading                                                  *)
(***************************************************************************)
\* the defaultdict's factory, lines 17-21
DefaultStats ==
    [trades |-> 0, buy_count |-> 0, sell_count |-> 0, total_volume |-> 0,
     total_cost |-> 0, total_proceeds |-> 0, level |-> 0,
     entry_tick |-> None, exit_tick |-> None]

\* player_stats[player_id] of a defaultdict
Lookup(stats, p) == IF p \in DOMAIN stats THEN stats[p] ELSE DefaultStats

\* the entry tick taken again while it is 0 (`if not stats['entry_tick']`)
FoldStatsEntryWhileFalsy(s, d) ==
    [s EXCEPT
       !.trades = @ + 1,
       !.total_volume = @ + d.qty,
       !.level = d.level,
       !.entry_tick = IF @ = None \/ @ = Some(0) THEN Some(d.tickIndex) ELSE @,
       !.exit_tick = Some(d.tickIndex),
       !.buy_count = @ + (IF d.type = "buy" THEN 1 ELSE 0),
       !.total_cost = @ + (IF d.type = "buy" THEN d.amount ELSE 0),
       !.sell_count = @ + (IF d.type = "sell" THEN 1 ELSE 0),
       !.total_proceeds = @ + (IF d.type = "sell" THEN d.amount ELSE 0)]

\* one iteration of the loop of lines 24-50 on the aggregate of the player
FoldStats(s, d) ==
    [s EXCEPT
       !.trades = @ + 1,
       !.total_volume = @ + d.qty,
       !.level = d.level,
       !.entry_tick = IF @ = None THEN Some(d.tickIndex) ELSE @,
       !.exit_tick = Some(d.tickIndex),
       !.buy_count = @ + (IF d.type = "buy" THEN 1 ELSE 0),
       !.total_cost = @ + (IF d.type = "buy" THEN d.amount ELSE 0),
       !.sell_count = @ + (IF d.type = "sell" THEN 1 ELSE 0),
       !.total_proceeds = @ + (IF d.type = "sell" THEN d.amount ELSE 0)]

\* the loop body on the whole mapping
FoldTrade(stats, d) ==
    [p \in DOMAIN stats \cup {d.playerId} |->
        IF p = d.playerId THEN FoldStats(Lookup(stats, p), d) ELSE stats[p]]

\* the derived metrics of lines 53-59 for one player
Derived(s) ==
    [trades |-> s.trades, buy_count |-> s.buy_count,
     sell_count |-> s.sell_count, total_volume |-> s.total_volume,
     total_cost |-> s.total_cost, total_proceeds |-> s.total_proceeds,
     level |-> s.level, entry_tick |-> s.entry_tick,
     exit_tick |-> s.exit_tick,
     buy_sell_ratio |-> Frac(s.buy_count, Max(s.sell_count, 1)),
     avg_trade_size |-> Frac(s.total_volume, Max(s.trades, 1)),
     profit_loss |-> s.total_proceeds - s.total_cost,
     trading_duration |-> OrZero(s.exit_tick) - OrZero(s.entry_tick)]

DeriveAll(stats) == [p \in DOMAIN stats |-> Derived(stats[p])]

\* analyze_player_trading on a list of trade data (the newTrade events)
RECURSIVE FoldAll(_, _)
FoldAll(stats, trades) ==
    IF trades = <<>> THEN stats
    ELSE FoldAll(FoldTrade(stats, Head(trades)), Tail(trades))

analyze_player_trading(trades) == DeriveAll(FoldAll(<<>>, trades))

(***************************************************************************)
(* classify_trading_pattern                                                *)
(*                                                                         *)
(* volume < 0.1 is 10 * units < QtyScale and volume > 1.0 is units >       *)
(* QtyScale.  entry_tick < game_duration * 0.3 is 10 * entry < 3 * d and   *)
(* entry_tick > game_duration * 0.7 is 10 * entry > 7 * d: for integer     *)
(* ticks and durations below 90 the double products compare with an        *)
(* integer exactly as the fractions do.                                    *)
(***************************************************************************)
\* the buy-only rule tried first
classify_hodler_first(s, game_duration) ==
    LET trades == s.trades
        volume == s.total_volume
        entry_tick == OrZero(s.entry_tick)
    IN  IF s.sell_count = 0 THEN "hodler"
        ELSE IF trades >= ScalperTrades /\ 10 * volume < QtyScale THEN "scalper"
        ELSE IF trades <= WhaleTrades /\ volume > QtyScale THEN "whale"
        ELSE IF trades >= FlipperTrades /\ s.buy_count = s.sell_count
             THEN "flipper"
        ELSE IF 10 * entry_tick < 3 * game_duration THEN "early_bird"
        ELSE IF 10 * entry_tick > 7 * game_duration THEN "late_joiner"
        ELSE "regular"

\* the two timing rules tried before the buy-only rule
classify_timing_before_hodler(s, game_duration) ==
    LET trades == s.trades
        volume == s.total_volume
        entry_tick == OrZero(s.entry_tick)
    IN  IF trades >= ScalperTrades /\ 10 * volume < QtyScale THEN "scalper"
        ELSE IF trades <= WhaleTrades /\ volume > QtyScale THEN "whale"
        ELSE IF 10 * entry_tick < 3 * game_duration THEN "early_bird"
        ELSE IF 10 * entry_tick > 7 * game_duration THEN "late_joiner"
        ELSE IF s.sell_count = 0 THEN "hodler"
        ELSE IF trades >= FlipperTrades /\ s.buy_count = s.sell_count
             THEN "flipper"
        ELSE "regular"

\* no label for a player whom none of the six rules matches
classify_without_regular(s, game_duration) ==
    LET trades == s.trades
        volume == s.total_volume
        entry_tick == OrZero(s.entry_tick)
    IN  IF trades >= ScalperTrades /\ 10 * volume < QtyScale THEN "scalper"
        ELSE IF trades <= WhaleTrades /\ volume > QtyScale THEN "whale"
        ELSE IF s.sell_count = 0 THEN "hodler"
        ELSE IF trades >= FlipperTrades /\ s.buy_count = s.sell_count
             THEN "flipper"
        ELSE IF 10 * entry_tick < 3 * game_duration THEN "early_bird"
        ELSE IF 10 * entry_tick > 7 * game_duration THEN "late_joiner"
        ELSE "unclassified"

classify_trading_pattern(s, game_duration) ==
    LET trades == s.trades
        volume == s.total_volume
        entry_tick == OrZero(s.entry_tick)
    IN  IF trades >= ScalperTrades /\ 10 * volume < QtyScale THEN "scalper"
        ELSE IF trades <= WhaleTrades /\ volume > QtyScale THEN "whale"
        ELSE IF s.sell_count = 0 THEN "hodler"
        ELSE IF trades >= FlipperTrades /\ s.buy_count = s.sell_count
             THEN "flipper"
        ELSE IF 10 * entry_tick < 3 * game_duration THEN "early_bird"
        ELSE IF 10 * entry_tick > 7 * game_duration THEN "late_joiner"
        ELSE "regular"

(***************************************************************************)
(* round                                                                   *)
(***************************************************************************)
\* the integer nearest to f * k, a tie going to the even one
RoundFrac(f, k) ==
    LET x == FracScale(k, f)
        q == x[1] \div x[2]
        r == x[1] % x[2]
    IN  IF 2 * r < x[2] THEN q
        ELSE IF 2 * r > x[2] THEN q + 1
        ELSE IF q % 2 = 0 THEN q ELSE q + 1

\* round(price, 6) of a price held in 1e-7 units
Round6(price) == 10 * RoundFrac(Frac(price, 10), 1)

(***************************************************************************)
(* calculate_comprehensive_metrics                                         *)
(***************************************************************************)
\* lines 101-104
FinalPriceFallback(price_progression) ==
    IF Len(price_progression) >= 2
    THEN price_progression[Len(price_progression) - 1].price
    ELSE IF Len(price_progression) = 1 THEN price_progression[1].price
    ELSE 0

FinalPrice(price_progression) ==
    IF price_progression # <<>> /\ Len(price_progression) >= 2
    THEN price_progression[Len(price_progression) - 1].price
    ELSE 0

\* line 126
Patterns(stats, duration_ticks) ==
    [p \in DOMAIN stats |-> classify_trading_pattern(stats[p], duration_ticks)]

PatternCount(pats, label) == Cardinality({p \in DOMAIN pats : pats[p] = label})

\* line 123: top_player_volume / max(total_game_volume, 0.001), volumes in
\* sixteenths: a total of one unit or more exceeds 0.001, a total of none
\* leaves the divisor 0.001 = 2 / 125 units
TopPlayerVolumeRatio(stats) ==
    LET vol == [p \in DOMAIN stats |-> stats[p].total_volume]
        top == MaxOver(vol, DOMAIN stats)
        total == SumOver(vol, DOMAIN stats)
    IN  IF total >= 1 THEN Frac(top, total) ELSE Frac(top * 125, 2)

\* lines 159-163
DurationRisk(duration_ticks) ==
    Frac(Max(0, DurationNorm - duration_ticks), DurationNorm)

ActivityRisk(total_trades) ==
    Frac(Min(total_trades, ActivityNorm), ActivityNorm)

CompositeRisk(duration_risk, concentration_risk, activity_risk) ==
    LET s == FracAdd(FracAdd(FracScale(4, duration_risk),
                             FracScale(3, concentration_risk)),
                     FracScale(3, activity_risk))
    IN  Frac(s[1], 10 * s[2])

\* Lines 93-220 on the analysis object and the player aggregates.  The row
\* keeps the columns that are computed from the aggregates and from the
\* fields modelled here; the remaining columns copy or divide input fields
\* behind a max(..., 1) or max(..., 0.001) guard.
Metrics(game_id, analysis, stats) ==
    LET duration_ticks == analysis.finalTick
        total_trades == analysis.totalTrades
        final_price == FinalPrice(analysis.priceProgression)
        ids == DOMAIN stats
        pats == Patterns(stats, duration_ticks)
        levelled == {p \in ids : stats[p].level > 0}
        level == [p \in ids |-> stats[p].level]
        duration_risk == DurationRisk(duration_ticks)
        concentration_risk ==
            IF ids # {} THEN TopPlayerVolumeRatio(stats) ELSE Frac(0, 1)
        activity_risk == ActivityRisk(total_trades)
        composite_risk ==
            CompositeRisk(duration_risk, concentration_risk, activity_risk)
    IN  IF ids # {} /\ levelled = {}
        THEN [kind |-> "raise", error |-> "StatisticsError"]    \* line 141
        ELSE [kind |-> "return",
              risk |-> [duration_risk |-> duration_risk,
                        concentration_risk |-> concentration_risk,
                        activity_risk |-> activity_risk,
                        composite_risk |-> composite_risk],
              row |->
                [gameId |-> game_id,
                 duration_ticks |-> duration_ticks,
                 final_price |-> Round6(final_price),
                 is_instarug |-> duration_ticks < InstarugTicks,
                 total_trades |-> total_trades,
                 players_actually_trading |-> Cardinality(ids),
                 profitable_players |->
                     Cardinality({p \in ids : stats[p].profit_loss > 0}),
                 early_entry_players |->
                     Cardinality({p \in ids :
                         10 * OrZero(stats[p].entry_tick) < 3 * duration_ticks}),
                 late_entry_players |->
                     Cardinality({p \in ids :
                         10 * OrZero(stats[p].entry_tick) > 7 * duration_ticks}),
                 avg_player_level |->
                     IF ids # {}
                     THEN RoundFrac(Frac(SumOver(level, levelled),
                                         Cardinality(levelled)), 10)
                     ELSE 0,
                 high_level_players |->
                     Cardinality({p \in ids : stats[p].level > HighLevel}),
                 scalpers |-> PatternCount(pats, "scalper"),
                 whales |-> PatternCount(pats, "whale"),
                 hodlers |-> PatternCount(pats, "hodler"),
                 flippers |-> PatternCount(pats, "flipper"),
                 early_birds |-> PatternCount(pats, "early_bird"),
                 late_joiners |-> PatternCount(pats, "late_joiner"),
                 regular_traders |-> PatternCount(pats, "regular"),
                 duration_risk |-> RoundFrac(duration_risk, 1000),
                 concentration_risk |-> RoundFrac(concentration_risk, 1000),
                 activity_risk |-> RoundFrac(activity_risk, 1000),
                 composite_risk_score |-> RoundFrac(composite_risk, 1000)]]

(***************************************************************************)
(* One game, step by step: calculate_comprehensive_metrics with the loop   *)
(* of analyze_player_trading unrolled.  The game's analysis fields do not  *)
(* influence the fold; they are drawn where the function first uses them   *)
(* together with the aggregates.                                           *)
(***************************************************************************)
Analyses ==
    [finalTick : FinalTicks, totalTrades : TotalTradesSet,
     priceProgression : PriceProgressions]

InitGame ==
    /\ pc = "fold"
    /\ player_stats = <<>>
    /\ n_events = 0
    /\ game = None
    /\ patterns = <<>>
    /\ result = None
    /\ script = "game"
    /\ input = <<>>
    /\ li = 0
    /\ games = <<>>
    /\ gi = 0
    /\ rows = <<>>
    /\ log = <<>>
    /\ outfile = None
    /\ tick_records = <<>>
    /\ analyzer = None
    /\ strategy = "none"
    /\ stop_tick = 0
    /\ bankroll = 0
    /\ initial_bet = 0
    /\ current_bankroll = 0
    /\ current_bet = 0
    /\ bets_made = 0
    /\ consecutive_losses = 0
    /\ t = 0

\* lines 24-50: the loop takes the next newTrade event
FoldTradeEvent ==
    /\ pc = "fold"
    /\ n_events < MaxEvents
    /\ \E d \in TradeData : player_stats' = FoldTrade(player_stats, d)
    /\ n_events' = n_events + 1
    /\ UNCHANGED <<pc, game, patterns, result>>
    /\ UNCHANGED batchVars
    /\ UNCHANGED tickVars
    /\ UNCHANGED betVars

\* lines 53-61 and 93-220: the loop is over
Finish ==
    /\ pc = "fold"
    /\ \E a \in Analyses :
         /\ game' = Some(a)
         /\ player_stats' = DeriveAll(player_stats)
         /\ patterns' = Patterns(DeriveAll(player_stats), a.finalTick)
         /\ result' = Metrics("g", a, DeriveAll(player_stats))
    /\ pc' = "done"
    /\ UNCHANGED n_events
    /\ UNCHANGED batchVars
    /\ UNCHANGED tickVars
    /\ UNCHANGED betVars

NextGame == FoldTradeEvent \/ Finish

SpecGame == InitGame /\ [][NextGame]_vars

(***************************************************************************)
(* The three batch analyses                                                *)
(*   "basic"    analyze_games                   (analyze-rugs-data.py)     *)
(*   "players"  analyze_games_with_players      (player-integrated-...)    *)
(*   "ticks"    analyze_all_games_tick_by_tick  (tick-by-tick-analysis.py) *)
(* A line of the input file is the value json.loads makes of it:           *)
(*   kind "malformed"  not JSON (json.loads raises JSONDecodeError)        *)
(*   kind "falsy"      a JSON value Python holds false: {}, [], 0, null    *)
(*   kind "value"      a true JSON value that is no object: [1], 7, "x"    *)
(*   kind "dict"       a JSON object, with the fields the analyses read    *)
(* The analysis field of an object is an object (kind "object", absent     *)
(* keys at their .get defaults) or some other JSON value (kind "value").   *)
(***************************************************************************)
Scripts == {"basic", "players", "ticks"}

Malformed == [kind |-> "malformed"]
Falsy == [kind |-> "falsy"]
NonDict == [kind |-> "value"]

TradeEvent(d) == [eventType |-> "newTrade", data |-> d]
OtherEvent == [eventType |-> "other"]

Game(id, a, ev) == [kind |-> "dict", gameId |-> id, analysis |-> a, events |-> ev]
Analysis(ft, tt, pp) ==
    [kind |-> "object", finalTick |-> ft, totalTrades |-> tt,
     priceProgression |-> pp]

\* an instarug without trades; a game with two traders, all of its price
\* entries within 5 ticks of the end; a game whose only trader has level 0;
\* a record whose analysis is a number
GameA == Game("a", Analysis(5, 0, <<PP(5, 15000000)>>), <<>>)
GameB ==
    Game("b",
         Analysis(8, 40,
                  <<PP(3, 20000007), PP(4, 10000004), PP(5, 15000000)>>),
         <<OtherEvent, TradeEvent(Trade("p1", "buy", 24, 1, 5)),
           TradeEvent(Trade("p2", "sell", 1, 8, 0))>>)
GameC ==
    Game("c", Analysis(20, 250, <<PP(4, 10000004), PP(5, 15000000)>>),
         <<TradeEvent(Trade("p1", "buy", 1, 8, 0))>>)
GameD == Game("d", [kind |-> "value"], <<>>)
\* a game whose price entries come with ticks 4, 3, 4 and whose trades are
\* made at those ticks
GameE ==
    Game("e",
         Analysis(5, 3,
                  <<PP(4, 20000007), PP(3, 10000004), PP(4, 15000000)>>),
         <<TradeEvent(Trade("p1", "buy", 24, 4, 5)),
           TradeEvent(Trade("p2", "buy", 1, 4, 7)),
           TradeEvent(Trade("p1", "sell", 1, 3, 5))>>)

\* a game whose third price entry is a number, between entries that are
\* objects
GameF ==
    Game("f",
         Analysis(5, 0,
                  <<PP(3, 10000004), PP(4, 25000004), NonDict,
                    PP(4, 25000004), PP(5, 15000000)>>),
         <<>>)

LinePool ==
    {Malformed, Falsy, NonDict, GameA, GameB, GameC, GameD, GameE, GameF}

RECURSIVE SeqsUpTo(_, _)
SeqsUpTo(S, n) ==
    IF n = 0 THEN {<<>>}
    ELSE LET shorter == SeqsUpTo(S, n - 1)
         IN  shorter \cup {Append(q, x) : q \in shorter, x \in S}

Raise(e) == [kind |-> "raise", error |-> e]
Return(rs) == [kind |-> "return", rows |-> rs]

\* json.loads(line.strip()) and `if game:`; lines 27-33 of analyze_games and
\* the same lines of the other two
ParseLine(line) ==
    IF line.kind = "malformed" THEN Raise("JSONDecodeError")
    ELSE [kind |-> "return", value |-> line, truthy |-> line.kind # "falsy"]

\* line 15 / line 45: the newTrade events, as trade data
RECURSIVE TradeEvents(_)
TradeEvents(events) ==
    IF events = <<>> THEN <<>>
    ELSE IF Head(events).eventType = "newTrade"
         THEN <<Head(events).data>> \o TradeEvents(Tail(events))
         ELSE TradeEvents(Tail(events))

\* analyze_games, lines 39-84: the body of the try of one game
BasicGame(g) ==
    IF g.kind # "dict" THEN Raise("AttributeError")             \* game.get
    ELSE IF g.analysis.kind # "object" THEN Raise("AttributeError")
    ELSE Return(<<[gameId |-> g.gameId,
                   duration_ticks |-> g.analysis.finalTick,
                   rug_tick |-> g.analysis.finalTick,
                   final_price |->
                       FinalPriceFallback(g.analysis.priceProgression),
                   is_instarug |-> g.analysis.finalTick < InstarugTicks]>>)

\* calculate_comprehensive_metrics(game), lines 86-220
calculate_comprehensive_metrics(g) ==
    IF g.kind # "dict" THEN Raise("AttributeError")
    ELSE IF g.analysis.kind # "object" THEN Raise("AttributeError")
    ELSE LET m == Metrics(g.gameId, g.analysis,
                          analyze_player_trading(TradeEvents(g.events)))
         IN  IF m.kind = "raise" THEN m ELSE Return(<<m.row>>)

\* calculate_price_volatility on the window of lines 87-88, as far as the
\* batch reads it: whether round(volatility, 6) > 0.  The sample deviation
\* of the absolute changes is 0 with fewer than two changes or with all
\* changes equal; the prices of the model differ by 0.4999996 or more, so a
\* deviation that is not 0 does not round to 0.
VolatilityPositive(prices) ==
    LET window == SubSeq(prices, Max(1, Len(prices) - 9), Len(prices))
        changes == [k \in 1..(Len(window) - 1) |->
                       Abs(window[k + 1] - window[k])]
    IN  /\ Len(changes) > 1
        /\ \E j, k \in 1..Len(changes) : changes[j] # changes[k]

\* dict.get(key, default) on a JSON object held as a record
Get(d, key, default) == IF key \in DOMAIN d THEN d[key] ELSE default

\* t.get('data', {}) of an event; {} is the record without fields
EventData(e) == Get(e, "data", <<>>)

\* line 45 of the tick analysis: the newTrade events themselves
NewTradeEvents(events) ==
    SelectSeq(events, LAMBDA e : Get(e, "eventType", "") = "newTrade")

\* a range match in place of the exact match
TradesUpToTick(trade_events, tick) ==
    SelectSeq(trade_events,
              LAMBDA e : /\ "tickIndex" \in DOMAIN EventData(e)
                         /\ EventData(e).tickIndex <= tick)

\* lines 92-93: data.get('tickIndex') has no default, so a trade without a
\* tickIndex gives None, which equals no integer tick
TradesAtTick(trade_events, tick) ==
    SelectSeq(trade_events,
              LAMBDA e : /\ "tickIndex" \in DOMAIN EventData(e)
                         /\ EventData(e).tickIndex = tick)

\* lines 95-98
OrdersOfType(trades_at_tick, type) ==
    Len(SelectSeq(trades_at_tick,
                  LAMBDA e : Get(EventData(e), "type", "") = type))

\* line 99
RECURSIVE VolumeOf(_)
VolumeOf(trades_at_tick) ==
    IF trades_at_tick = <<>> THEN 0
    ELSE Get(EventData(Head(trades_at_tick)), "qty", 0)
           + VolumeOf(Tail(trades_at_tick))

\* lines 102-103
PlayersActive(trades_at_tick) ==
    Cardinality({Get(EventData(trades_at_tick[k]), "playerId", "") :
                    k \in 1..Len(trades_at_tick)})

\* round(n / d, digits) in units of 10^-digits, by long division: the pair
\* <<floor(n / d * 10^k), remainder>>, then the tie to the even neighbour
RECURSIVE LongDiv(_, _, _)
LongDiv(n, d, k) ==
    IF k = 0 THEN <<n \div d, n % d>>
    ELSE LET p == LongDiv(n, d, k - 1)
         IN  <<10 * p[1] + (10 * p[2]) \div d, (10 * p[2]) % d>>

RoundQuot(n, d, digits) ==
    LET p == LongDiv(n, d, digits)
    IN  IF 2 * p[2] < d THEN p[1]
        ELSE IF 2 * p[2] > d THEN p[1] + 1
        ELSE IF p[1] % 2 = 0 THEN p[1] ELSE p[1] + 1

\* max(price, 0.001) of a price in 1e-7 units
PriceFloor == 10000

\* lines 87-88 and 18: the absolute changes within the rolling window
WindowSize == 10
WindowChanges(prices) ==
    LET window == SubSeq(prices, Max(1, Len(prices) - (WindowSize - 1)),
                         Len(prices))
    IN  [k \in 1..(Len(window) - 1) |-> Abs(window[k + 1] - window[k])]

RECURSIVE SumSeq(_)
SumSeq(q) == IF q = <<>> THEN 0 ELSE Head(q) + SumSeq(Tail(q))

RECURSIVE MaxSeq(_)
MaxSeq(q) ==
    IF Len(q) = 1 THEN Head(q) ELSE Max(Head(q), MaxSeq(Tail(q)))

\* calculate_price_volatility, lines 14-25: round(avg_change, 6) and
\* round(max_change, 6) in 1e-7 units; (0, 0, 0) for fewer than two prices
RollingAvgChange(prices) ==
    LET changes == WindowChanges(prices)
    IN  IF Len(prices) < 2 THEN 0
        ELSE 10 * RoundQuot(SumSeq(changes), 10 * Len(changes), 0)

\* the first price counted as a change from 0
RollingMaxChangeFromZero(prices) ==
    LET changes == WindowChanges(prices)
    IN  IF Len(prices) < 2 THEN Round6(Abs(prices[1]))
        ELSE Round6(MaxSeq(changes))

RollingMaxChange(prices) ==
    LET changes == WindowChanges(prices)
    IN  IF Len(prices) < 2 THEN 0 ELSE Round6(MaxSeq(changes))

\* lines 51-163: the record of the i-th price-progression entry (i from 1;
\* Python's index is i - 1), with the position, price-movement, volatility,
\* trading-activity and game-context columns.  Units: prices and changes of
\* prices 1e-7, relative changes 1e-4, volume 1e-4 (of sixteenths * 625),
\* buy_sell_ratio_at_tick 1e-3.
TickRecord(g, i) ==
    LET pp == g.analysis.priceProgression
        final_tick == g.analysis.finalTick
        trade_events == NewTradeEvents(g.events)
        tick == Get(pp[i], "tick", i - 1)
        price == Get(pp[i], "price", 0)
        prices_so_far == [k \in 1..i |-> Get(pp[k], "price", 0)]
        prev_price == Get(pp[i - 1], "price", 0)
        price_5_ago == Get(pp[i - 5], "price", 0)
        trades_at_tick == TradesAtTick(trade_events, tick)
        buy_orders_at_tick == OrdersOfType(trades_at_tick, "buy")
        sell_orders_at_tick == OrdersOfType(trades_at_tick, "sell")
    IN  [gameId |-> g.gameId,
         tick |-> tick,
         price |-> Round6(price),
         ticks_to_rug |-> final_tick - tick,
         is_near_rug |-> final_tick - tick <= 5,
         is_very_near_rug |-> final_tick - tick <= 2,
         price_change_1tick |->
             IF i - 1 > 0
             THEN RoundQuot(price - prev_price, Max(prev_price, PriceFloor), 4)
             ELSE 0,
         price_change_5tick |->
             IF i - 1 >= 5
             THEN RoundQuot(price - price_5_ago, Max(price_5_ago, PriceFloor), 4)
             ELSE 0,
         price_velocity |->
             IF i - 1 >= 2
             THEN Round6((prices_so_far[i] - prices_so_far[i - 1])
                           - (prices_so_far[i - 1] - prices_so_far[i - 2]))
             ELSE 0,
         volatility_positive |-> VolatilityPositive(prices_so_far),
         rolling_avg_change |-> RollingAvgChange(prices_so_far),
         rolling_max_change |-> RollingMaxChange(prices_so_far),
         buy_orders_at_tick |-> buy_orders_at_tick,
         sell_orders_at_tick |-> sell_orders_at_tick,
         volume_at_tick |->
             RoundQuot(VolumeOf(trades_at_tick), QtyScale, 4),
         players_active_at_tick |-> PlayersActive(trades_at_tick),
         buy_sell_ratio_at_tick |->
             RoundQuot(buy_orders_at_tick, Max(sell_orders_at_tick, 1), 3),
         net_order_flow |-> buy_orders_at_tick - sell_orders_at_tick,
         final_tick |-> final_tick,
         is_instarug |-> final_tick < InstarugTicks]

\* the records in the order of their ticks instead of the order of the entries
RECURSIVE SortedByTick(_)
SortedByTick(rs) ==
    IF rs = <<>> THEN <<>>
    ELSE LET m == CHOOSE k \in 1..Len(rs) :
                     \A j \in 1..Len(rs) :
                        rs[k].tick < rs[j].tick
                          \/ (rs[k].tick = rs[j].tick /\ k <= j)
         IN  <<rs[m]>> \o SortedByTick([j \in 1..(Len(rs) - 1) |->
                                          IF j < m THEN rs[j] ELSE rs[j + 1]])

\* line 52: price_point.get raises AttributeError for an entry that is no
\* JSON object
EntryIsObject(price_point) == Get(price_point, "kind", "object") = "object"

\* the entries the loop of line 51 gets through: all of them, or those before
\* the first entry that is no object
EntriesBeforeError(price_progression) ==
    IF \A i \in 1..Len(price_progression) : EntryIsObject(price_progression[i])
    THEN Len(price_progression)
    ELSE (CHOOSE i \in 1..Len(price_progression) :
             /\ ~EntryIsObject(price_progression[i])
             /\ \A k \in 1..(i - 1) : EntryIsObject(price_progression[k])) - 1

analyze_tick_progression_sorted(g) ==
    IF g.kind # "dict" THEN Raise("AttributeError")
    ELSE IF g.analysis.kind # "object" THEN Raise("AttributeError")
    ELSE IF EntriesBeforeError(g.analysis.priceProgression)
              < Len(g.analysis.priceProgression)
    THEN Raise("AttributeError")
    ELSE Return(SortedByTick([i \in 1..Len(g.analysis.priceProgression) |->
                                TickRecord(g, i)]))

\* the records made before an entry raised are handed back
analyze_tick_progression_partial(g) ==
    IF g.kind # "dict" THEN Raise("AttributeError")
    ELSE IF g.analysis.kind # "object" THEN Raise("AttributeError")
    ELSE Return([i \in 1..EntriesBeforeError(g.analysis.priceProgression) |->
                    TickRecord(g, i)])

\* analyze_tick_progression(game), lines 27-167: one record per entry, in
\* the order of the entries; the records are collected in a list of the
\* call, which is lost when an entry raises
analyze_tick_progression(g) ==
    IF g.kind # "dict" THEN Raise("AttributeError")
    ELSE IF g.analysis.kind # "object" THEN Raise("AttributeError")
    ELSE IF EntriesBeforeError(g.analysis.priceProgression)
              < Len(g.analysis.priceProgression)
    THEN Raise("AttributeError")
    ELSE Return([i \in 1..Len(g.analysis.priceProgression) |->
                    TickRecord(g, i)])

ProcessOne(sc, g) ==
    IF sc = "basic" THEN BasicGame(g)
    ELSE IF sc = "players" THEN calculate_comprehensive_metrics(g)
    ELSE analyze_tick_progression(g)

\* the except handler prints game.get('gameId', 'unknown')
HandlerRaises(g) == g.kind # "dict"

InitBatch ==
    /\ pc = "run"
    /\ script \in Scripts
    /\ input \in SeqsUpTo(LinePool, MaxLines)
    /\ li = 0
    /\ games = <<>>
    /\ gi = 0
    /\ rows = <<>>
    /\ log = <<>>
    /\ outfile = None
    /\ player_stats = <<>>
    /\ n_events = 0
    /\ game = None
    /\ patterns = <<>>
    /\ result = None
    /\ tick_records = <<>>
    /\ analyzer = None
    /\ strategy = "none"
    /\ stop_tick = 0
    /\ bankroll = 0
    /\ initial_bet = 0
    /\ current_bankroll = 0
    /\ current_bet = 0
    /\ bets_made = 0
    /\ consecutive_losses = 0
    /\ t = 0

\* the read loop stops at the first line it cannot parse
ReadLineStopsAtError ==
    /\ pc = "run"
    /\ li < Len(input)
    /\ LET parsed == ParseLine(input[li + 1])
       IN  IF parsed.kind = "raise"
           THEN /\ log' = Append(log, [what |-> "parse"])
                /\ li' = Len(input)
                /\ UNCHANGED games
           ELSE /\ games' = IF parsed.truthy THEN Append(games, parsed.value)
                            ELSE games
                /\ li' = li + 1
                /\ UNCHANGED log
    /\ UNCHANGED <<pc, script, input, gi, rows, outfile>>
    /\ UNCHANGED gameVars
    /\ UNCHANGED tickVars
    /\ UNCHANGED betVars

\* one iteration of `for line in f`
ReadLine ==
    /\ pc = "run"
    /\ li < Len(input)
    /\ LET parsed == ParseLine(input[li + 1])
       IN  IF parsed.kind = "raise"
           THEN /\ log' = Append(log, [what |-> "parse"])
                /\ UNCHANGED games
           ELSE /\ games' = IF parsed.truthy THEN Append(games, parsed.value)
                            ELSE games
                /\ UNCHANGED log
    /\ li' = li + 1
    /\ UNCHANGED <<pc, script, input, gi, rows, outfile>>
    /\ UNCHANGED gameVars
    /\ UNCHANGED tickVars
    /\ UNCHANGED betVars

\* one iteration of `for game in games`, its try and its except
ProcessGame ==
    /\ pc = "run"
    /\ li = Len(input)
    /\ gi < Len(games)
    /\ LET g == games[gi + 1]
           r == ProcessOne(script, g)
       IN  IF r.kind = "return"
           THEN /\ rows' = rows \o r.rows
                /\ UNCHANGED <<log, pc>>
           ELSE IF HandlerRaises(g)
           THEN /\ pc' = "crashed"
                /\ UNCHANGED <<rows, log>>
           ELSE /\ log' = Append(log, [what |-> "game", gameId |-> g.gameId])
                /\ UNCHANGED <<rows, pc>>
    /\ gi' = gi + 1
    /\ UNCHANGED <<script, input, li, games, outfile>>
    /\ UNCHANGED gameVars
    /\ UNCHANGED tickVars
    /\ UNCHANGED betVars

\* line 221 of the tick analysis, in the summary printed after the table is
\* written: the mean of the positive volatilities of the near-rug records,
\* taken whenever there is a near-rug record
SummaryRaises(sc, rs) ==
    /\ sc = "ticks"
    /\ \E i \in 1..Len(rs) : rs[i].is_near_rug
    /\ \A i \in 1..Len(rs) : rs[i].is_near_rug => ~rs[i].volatility_positive

\* the output stage: analyze_games lines 90-97, analyze_games_with_players
\* lines 247-273, analyze_all_games_tick_by_tick lines 196-247
WriteTable ==
    /\ pc = "run"
    /\ li = Len(input)
    /\ gi = Len(games)
    /\ outfile' = IF script = "basic" \/ rows # <<>>
                  THEN Some([header |-> TRUE, rows |-> rows])
                  ELSE None
    /\ pc' = IF SummaryRaises(script, rows) THEN "crashed_in_summary"
             ELSE "done"
    /\ UNCHANGED <<script, input, li, games, gi, rows, log>>
    /\ UNCHANGED gameVars
    /\ UNCHANGED tickVars
    /\ UNCHANGED betVars

NextBatch == ReadLine \/ ProcessGame \/ WriteTable

SpecBatch == InitBatch /\ [][NextBatch]_vars

(***************************************************************************)
(* analyze_player_trading on the events of a game as they stand in the     *)
(* file: a field of a trade may be absent, the value of a numeric field    *)
(* may be a string (d.mistyped names such fields), and the data of an      *)
(* event may be a JSON value that is no object (kind "value").             *)
(***************************************************************************)
NotAnObject == [kind |-> "value"]
Mistyped(d) == Get(d, "mistyped", {})

\* lines 25-36, 45 and 49: the fields of a trade behind their .get defaults
ReadTrade(e) ==
    LET d == EventData(e)
    IN  [playerId |-> Get(d, "playerId", "unknown"),
         type |-> Get(d, "type", "unknown"),
         qty |-> Get(d, "qty", 0),
         tickIndex |-> Get(d, "tickIndex", 0),
         level |-> Get(d, "level", 0),
         amount |-> Get(d, "amount", 0)]

\* the exception one iteration of lines 25-50 raises on the event, or "none":
\* data.get on a value that is no object (line 26), int += str on qty (line
\* 34), on the cost of a buy (line 45), on the proceeds of a sell (line 49)
TradeError(e) ==
    LET d == EventData(e)
    IN  IF Get(d, "kind", "object") # "object" THEN "AttributeError"
        ELSE IF "qty" \in Mistyped(d) THEN "TypeError"
        ELSE IF "amount" \in Mistyped(d)
                  /\ Get(d, "type", "unknown") \in {"buy", "sell"}
             THEN "TypeError"
        ELSE "none"

\* the events analyze_player_trading is given
TradePool ==
    { OtherEvent,
      TradeEvent(Trade("p1", "buy", 24, 8, 5)),
      TradeEvent(Trade("p1", "sell", 1, 0, 5)),
      TradeEvent(Trade("p1", "buy", 1, 3, 5)),
      TradeEvent(Trade("p2", "buy", 1, 3, 0)),
      [eventType |-> "newTrade"],
      TradeEvent([playerId |-> "p2", type |-> "sell"]),
      TradeEvent([playerId |-> "p1", type |-> "buy", tickIndex |-> 3,
                  level |-> 5, amount |-> 2, mistyped |-> {"qty"}]),
      TradeEvent(NotAnObject) }

TradeAnalyses ==
    { Analysis(5, 40, <<PP(5, 15000000)>>),
      Analysis(20, 40, <<PP(4, 10000004), PP(5, 15000000)>>) }

InitTrades ==
    /\ pc = "fold"
    /\ game \in {Some(Game("g", a, ev)) :
                    a \in TradeAnalyses, ev \in SeqsUpTo(TradePool, MaxTrades)}
    /\ player_stats = <<>>
    /\ n_events = 0
    /\ patterns = <<>>
    /\ result = None
    /\ script = "trades"
    /\ input = <<>>
    /\ li = 0
    /\ games = <<>>
    /\ gi = 0
    /\ rows = <<>>
    /\ log = <<>>
    /\ outfile = None
    /\ tick_records = <<>>
    /\ analyzer = None
    /\ strategy = "none"
    /\ stop_tick = 0
    /\ bankroll = 0
    /\ initial_bet = 0
    /\ current_bankroll = 0
    /\ current_bet = 0
    /\ bets_made = 0
    /\ consecutive_losses = 0
    /\ t = 0

\* lines 15 and 24-50: the next event of the list; an event that is no
\* newTrade is not in trade_events, a trade is folded or raises
FoldEvent ==
    /\ pc = "fold"
    /\ n_events < Len(game[1].events)
    /\ LET e == game[1].events[n_events + 1]
       IN  IF Get(e, "eventType", "") # "newTrade"
           THEN UNCHANGED <<player_stats, result, pc>>
           ELSE IF TradeError(e) # "none"
           THEN /\ result' = Raise(TradeError(e))
                /\ pc' = "raised"
                /\ UNCHANGED player_stats
           ELSE /\ player_stats' = FoldTrade(player_stats, ReadTrade(e))
                /\ UNCHANGED <<result, pc>>
    /\ n_events' = n_events + 1
    /\ UNCHANGED <<game, patterns>>
    /\ UNCHANGED batchVars
    /\ UNCHANGED tickVars
    /\ UNCHANGED betVars

\* lines 53-61: the derived metrics, and the return
DeriveStats ==
    /\ pc = "fold"
    /\ n_events = Len(game[1].events)
    /\ player_stats' = DeriveAll(player_stats)
    /\ pc' = "derived"
    /\ UNCHANGED <<n_events, game, patterns, result>>
    /\ UNCHANGED batchVars
    /\ UNCHANGED tickVars
    /\ UNCHANGED betVars

\* calculate_comprehensive_metrics, lines 93-220, on the aggregates returned
FinishMetrics ==
    /\ pc = "derived"
    /\ patterns' = Patterns(player_stats, game[1].analysis.finalTick)
    /\ result' = Metrics(game[1].gameId, game[1].analysis, player_stats)
    /\ pc' = "done"
    /\ UNCHANGED <<n_events, game, player_stats>>
    /\ UNCHANGED batchVars
    /\ UNCHANGED tickVars
    /\ UNCHANGED betVars

NextTrades == FoldEvent \/ DeriveStats \/ FinishMetrics

SpecTrades == InitTrades /\ [][NextTrades]_vars

(***************************************************************************)
(* analyze_tick_progression, the loop over the price progression unrolled: *)
(* one record is appended per step.  An entry may come without a tick (its *)
(* tick is then its index) and ticks may repeat or go down; a trade may    *)
(* come without a tickIndex.                                               *)
(***************************************************************************)
\* prices 1.0000004, 2.5000004 and 1.5: for progressions of these the
\* rounded columns of the double arithmetic are those of the exact one
PricePoints == {PP(3, 10000004), PP(4, 25000004), [price |-> 15000000]}

\* a progression long enough for the five-entries-back comparison
LongProgression ==
    <<PP(1, 10000004), PP(2, 15000000), PP(3, 10000004), PP(4, 25000004),
      PP(3, 10000004), PP(5, 15000000), PP(6, 25000004)>>

\* progressions with an entry that is no object: the only entry, the second
\* of two, the third of four
BrokenProgressions ==
    { <<NonDict>>,
      <<PP(3, 10000004), NonDict>>,
      <<PP(3, 10000004), PP(4, 25000004), NonDict, PP(5, 15000000)>> }

TickProgressions ==
    SeqsUpTo(PricePoints, MaxEntries) \cup {LongProgression}
        \cup BrokenProgressions

TickTradePool ==
    { OtherEvent,
      TradeEvent(Trade("p1", "buy", 24, 3, 5)),
      TradeEvent(Trade("p2", "buy", 1, 3, 7)),
      TradeEvent(Trade("p1", "sell", 1, 3, 5)),
      TradeEvent(Trade("p2", "sell", 1, 4, 7)),
      TradeEvent(Trade("p1", "unknown", 1, 1, 5)),
      TradeEvent([playerId |-> "p1", type |-> "buy", qty |-> 1]) }

TickFinalTicks == {5, 20}

InitTicks ==
    /\ pc = "ticks"
    /\ game \in {Some(Game("g", Analysis(ft, 0, pp), ev)) :
                    ft \in TickFinalTicks, pp \in TickProgressions,
                    ev \in SeqsUpTo(TickTradePool, MaxTickTrades)}
    /\ tick_records = <<>>
    /\ result = None
    /\ player_stats = <<>>
    /\ n_events = 0
    /\ patterns = <<>>
    /\ script = "tick_progression"
    /\ input = <<>>
    /\ li = 0
    /\ games = <<>>
    /\ gi = 0
    /\ rows = <<>>
    /\ log = <<>>
    /\ outfile = None
    /\ analyzer = None
    /\ strategy = "none"
    /\ stop_tick = 0
    /\ bankroll = 0
    /\ initial_bet = 0
    /\ current_bankroll = 0
    /\ current_bet = 0
    /\ bets_made = 0
    /\ consecutive_losses = 0
    /\ t = 0

\* lines 51-165: the loop takes the next entry and appends its record, or
\* the entry raises and the call is left with the exception
AppendTickRecord ==
    /\ pc = "ticks"
    /\ Len(tick_records) < Len(game[1].analysis.priceProgression)
    /\ IF EntryIsObject(game[1].analysis.priceProgression[Len(tick_records) + 1])
       THEN /\ tick_records' =
                 Append(tick_records,
                        TickRecord(game[1], Len(tick_records) + 1))
            /\ UNCHANGED <<pc, result>>
       ELSE /\ result' = Raise("AttributeError")
            /\ pc' = "raised"
            /\ UNCHANGED tick_records
    /\ UNCHANGED <<player_stats, n_events, game, patterns>>
    /\ UNCHANGED batchVars
    /\ UNCHANGED betVars

\* line 167
ReturnTickRecords ==
    /\ pc = "ticks"
    /\ Len(tick_records) = Len(game[1].analysis.priceProgression)
    /\ result' = Return(tick_records)
    /\ pc' = "done"
    /\ UNCHANGED <<player_stats, n_events, game, patterns>>
    /\ UNCHANGED tickVars
    /\ UNCHANGED batchVars
    /\ UNCHANGED betVars

NextTicks == AppendTickRecord \/ ReturnTickRecords

SpecTicks == InitTicks /\ [][NextTicks]_vars

(***************************************************************************)
(* probability-game-notebook.py: ProbabilityGameAnalyzer.__init__ and the   *)
(* replay of one game by simulate_fixed_betting and simulate_martingale.   *)
(* The parameters are whole seconds, milliseconds and stakes; for these    *)
(* the double quotient bet_window_seconds / (ms_per_tick / 1000) truncates *)
(* to the same integer as the exact quotient, and current_bet * 1.5 is     *)
(* exact.                                                                  *)
(***************************************************************************)
MsPerSecond == 1000
MsPerTickSet == {300, 1000, 2000}
BetWindowSecondsSet == {0, 1, 3, 5}
PayoutMultiples == {5}
Bankrolls == {0, 3, 40}
InitialBets == {1, 2}
Strategies == {"fixed", "martingale"}

\* int(x) of a quotient x = f[1] / f[2]: the fraction is cut off
IntOf(f) == IF f[1] >= 0 THEN f[1] \div f[2] ELSE -((-f[1]) \div f[2])

\* lines 34 and 36
BetWindowTicks(bet_window_seconds, ms_per_tick) ==
    IntOf(Frac(bet_window_seconds * MsPerSecond, ms_per_tick))

InitBet ==
    /\ pc = "new"
    /\ analyzer = None
    /\ strategy = "none"
    /\ stop_tick = 0
    /\ bankroll = 0
    /\ initial_bet = 0
    /\ current_bankroll = 0
    /\ current_bet = 0
    /\ bets_made = 0
    /\ consecutive_losses = 0
    /\ t = 0
    /\ tick_records = <<>>
    /\ player_stats = <<>>
    /\ n_events = 0
    /\ game = None
    /\ patterns = <<>>
    /\ result = None
    /\ script = "bet"
    /\ input = <<>>
    /\ li = 0
    /\ games = <<>>
    /\ gi = 0
    /\ rows = <<>>
    /\ log = <<>>
    /\ outfile = None

\* __init__, lines 24-40
Construct ==
    /\ pc = "new"
    /\ \E ms \in MsPerTickSet, bw \in BetWindowSecondsSet,
          pm \in PayoutMultiples :
         analyzer' = Some([ms_per_tick |-> ms,
                           bet_window_seconds |-> bw,
                           payout_multiple |-> pm,
                           bet_window_ticks |-> BetWindowTicks(bw, ms)])
    /\ pc' = "ready"
    /\ UNCHANGED <<strategy, stop_tick, bankroll, initial_bet,
                   current_bankroll, current_bet, bets_made,
                   consecutive_losses, t>>
    /\ UNCHANGED gameVars
    /\ UNCHANGED batchVars
    /\ UNCHANGED tickVars

\* `for stop_tick in stopping_ticks` and lines 88-90 / 119-123
StartReplay ==
    /\ pc = "ready"
    /\ \E st \in Strategies, stop \in 1..MaxStopTick,
          b \in Bankrolls, bet \in InitialBets :
         /\ strategy' = st
         /\ stop_tick' = stop
         /\ bankroll' = b
         /\ initial_bet' = bet
         /\ current_bankroll' = b
         /\ current_bet' = bet
    /\ bets_made' = 0
    /\ consecutive_losses' = 0
    /\ t' = 0
    /\ pc' = "loop"
    /\ UNCHANGED analyzer
    /\ UNCHANGED gameVars
    /\ UNCHANGED batchVars
    /\ UNCHANGED tickVars

\* a bet wins whenever the game has not stopped before it
BetWinsBeforeStop == t < stop_tick

\* line 96 / line 128
BetWins == t < stop_tick /\ stop_tick <= t + analyzer[1].bet_window_ticks

\* the stake doubled from the eighth loss on
NextStakeDoubling(k, stake) ==
    IF k < 5 THEN initial_bet
    ELSE IF k = 5 THEN 2
    ELSE IF k = 6 THEN 3
    ELSE IF k = 7 THEN 4
    ELSE 2 * stake

\* lines 139-150: the stake after a loss that made the count k
NextStake(k, stake) ==
    IF k < 5 THEN initial_bet
    ELSE IF k = 5 THEN 2
    ELSE IF k = 6 THEN 3
    ELSE IF k = 7 THEN 4
    ELSE (3 * stake) \div 2

\* the loop of lines 92-103 with the bankroll test left out of its guard
FixedBetUnguarded ==
    /\ pc = "loop"
    /\ strategy = "fixed"
    /\ t < stop_tick
    /\ bets_made' = bets_made + 1
    /\ current_bankroll' =
         IF BetWins
         THEN current_bankroll + initial_bet * analyzer[1].payout_multiple
         ELSE current_bankroll - initial_bet
    /\ t' = t + analyzer[1].bet_window_ticks
    /\ UNCHANGED <<pc, analyzer, strategy, stop_tick, bankroll, initial_bet,
                   current_bet, consecutive_losses>>
    /\ UNCHANGED gameVars
    /\ UNCHANGED batchVars
    /\ UNCHANGED tickVars

\* one iteration of the while loop of lines 92-103
FixedBet ==
    /\ pc = "loop"
    /\ strategy = "fixed"
    /\ t < stop_tick /\ current_bankroll >= initial_bet
    /\ bets_made' = bets_made + 1
    /\ current_bankroll' =
         IF BetWins
         THEN current_bankroll + initial_bet * analyzer[1].payout_multiple
         ELSE current_bankroll - initial_bet
    /\ t' = t + analyzer[1].bet_window_ticks
    /\ UNCHANGED <<pc, analyzer, strategy, stop_tick, bankroll, initial_bet,
                   current_bet, consecutive_losses>>
    /\ UNCHANGED gameVars
    /\ UNCHANGED batchVars
    /\ UNCHANGED tickVars

\* one iteration of the while loop of lines 125-152
MartingaleBet ==
    /\ pc = "loop"
    /\ strategy = "martingale"
    /\ t < stop_tick /\ current_bankroll >= current_bet
    /\ bets_made' = bets_made + 1
    /\ IF BetWins
       THEN /\ current_bankroll' =
                 current_bankroll + current_bet * analyzer[1].payout_multiple
            /\ current_bet' = initial_bet
            /\ consecutive_losses' = 0
       ELSE /\ current_bankroll' = current_bankroll - current_bet
            /\ consecutive_losses' = consecutive_losses + 1
            /\ current_bet' = NextStake(consecutive_losses + 1, current_bet)
    /\ t' = t + analyzer[1].bet_window_ticks
    /\ UNCHANGED <<pc, analyzer, strategy, stop_tick, bankroll, initial_bet>>
    /\ UNCHANGED gameVars
    /\ UNCHANGED batchVars
    /\ UNCHANGED tickVars

\* the dict appended to results: lines 105-110, and lines 154-160 with the
\* fifth key
ReplayResult ==
    LET row == [final_bankroll |-> current_bankroll,
                bets_made |-> bets_made,
                profit_loss |-> current_bankroll - bankroll,
                stop_tick |-> stop_tick]
    IN  IF strategy = "martingale"
        THEN [final_bankroll |-> row.final_bankroll,
              bets_made |-> row.bets_made,
              profit_loss |-> row.profit_loss,
              stop_tick |-> row.stop_tick,
              max_consecutive_losses |-> consecutive_losses]
        ELSE row

\* the loop left only once the stopping tick is reached
EndReplayAtStopTick ==
    /\ pc = "loop"
    /\ ~(t < stop_tick)
    /\ pc' = "done"
    /\ result' = Some(ReplayResult)
    /\ UNCHANGED betVars
    /\ UNCHANGED <<player_stats, n_events, game, patterns>>
    /\ UNCHANGED batchVars
    /\ UNCHANGED tickVars

\* the while condition is false: lines 105-110 / 154-160
EndReplay ==
    /\ pc = "loop"
    /\ ~(t < stop_tick /\ current_bankroll >= current_bet)
    /\ pc' = "done"
    /\ result' = Some(ReplayResult)
    /\ UNCHANGED betVars
    /\ UNCHANGED <<player_stats, n_events, game, patterns>>
    /\ UNCHANGED batchVars
    /\ UNCHANGED tickVars

NextBet == Construct \/ StartReplay \/ FixedBet \/ MartingaleBet \/ EndReplay

SpecBet == InitBet /\ [][NextBet]_vars

\* a while loop that is running takes its next step: an enabled iteration, or
\* the exit once the condition is false, is not postponed for ever
SpecBetFair ==
    /\ InitBet
    /\ [][NextBet]_vars
    /\ WF_vars(FixedBet)
    /\ WF_vars(MartingaleBet)
    /\ WF_vars(EndReplay)

(***************************************************************************)
(* Properties of one game                                                  *)
(***************************************************************************)
\* the rules of the classifier as the specification lists them
Rule1(s) == s.trades >= 5 /\ 10 * s.total_volume < QtyScale
Rule2(s) == s.trades <= 2 /\ s.total_volume > QtyScale
Rule3(s) == s.sell_count = 0
Rule4(s) == s.trades >= 4 /\ s.buy_count = s.sell_count
Rule5(s, d) == 10 * OrZero(s.entry_tick) < 3 * d
Rule6(s, d) == 10 * OrZero(s.entry_tick) > 7 * d

FirstRule(s, d, l) ==
    /\ l \in Labels
    /\ Rule1(s) => l = "scalper"
    /\ ~Rule1(s) /\ Rule2(s) => l = "whale"
    /\ ~Rule1(s) /\ ~Rule2(s) /\ Rule3(s) => l = "hodler"
    /\ ~Rule1(s) /\ ~Rule2(s) /\ ~Rule3(s) /\ Rule4(s) => l = "flipper"
    /\ ~Rule1(s) /\ ~Rule2(s) /\ ~Rule3(s) /\ ~Rule4(s) /\ Rule5(s, d)
         => l = "early_bird"
    /\ ~Rule1(s) /\ ~Rule2(s) /\ ~Rule3(s) /\ ~Rule4(s) /\ ~Rule5(s, d)
         /\ Rule6(s, d) => l = "late_joiner"
    /\ ~Rule1(s) /\ ~Rule2(s) /\ ~Rule3(s) /\ ~Rule4(s) /\ ~Rule5(s, d)
         /\ ~Rule6(s, d) => l = "regular"

\* C1: every player aggregate gets exactly one of the seven labels, the
\* label of the first rule of the chain 1..7 that is true of it; a player
\* with trades >= 5 and total_volume < 0.1 is a scalper whatever else holds.
C1_FirstMatchingRule ==
    pc = "done" =>
        \A p \in DOMAIN player_stats :
            FirstRule(player_stats[p], game[1].finalTick, patterns[p])

\* C1 witness: a scalper that the buy-only rule and a timing rule would claim as well
C1_Witness ==
    /\ pc = "done"
    /\ \E p \in DOMAIN player_stats :
         /\ Rule1(player_stats[p])
         /\ Rule3(player_stats[p])
         /\ Rule5(player_stats[p], game[1].finalTick)
         /\ player_stats[p].total_volume > 0
         /\ patterns[p] = "scalper"

\* C2 as stated: every aggregate with sell_count = 0 and buy_count > 0 is a
\* hodler, for every value of trades, total_volume, entry_tick and duration.
C2_BuyOnlyIsHodler ==
    pc = "done" =>
        \A p \in DOMAIN player_stats :
            player_stats[p].sell_count = 0 /\ player_stats[p].buy_count > 0
                => patterns[p] = "hodler"

\* C2 amended: an aggregate with sell_count = 0 and buy_count > 0 that is
\* matched by neither rule 1 (trades >= 5 and total_volume < 0.1) nor rule 2
\* (trades <= 2 and total_volume > 1.0) is a hodler, for every entry_tick
\* and game duration.
C2_BuyOnlyIsHodlerAfterRules12 ==
    pc = "done" =>
        \A p \in DOMAIN player_stats :
            /\ player_stats[p].sell_count = 0
            /\ player_stats[p].buy_count > 0
            /\ ~(player_stats[p].trades >= 5
                   /\ 10 * player_stats[p].total_volume < QtyScale)
            /\ ~(player_stats[p].trades <= 2
                   /\ player_stats[p].total_volume > QtyScale)
            => patterns[p] = "hodler"

\* C2 witness: a buy-only player who entered in the first 30% of the game is a hodler
C2_Witness ==
    /\ pc = "done"
    /\ \E p \in DOMAIN player_stats :
         /\ player_stats[p].sell_count = 0
         /\ player_stats[p].buy_count > 0
         /\ 10 * player_stats[p].entry_tick[1] < 3 * game[1].finalTick
         /\ patterns[p] = "hodler"

\* C3 as stated: buy_count + sell_count = trades for every aggregate, whatever
\* the type field of the trades folded.
C3_CountsAddUp ==
    \A p \in DOMAIN player_stats :
        player_stats[p].buy_count + player_stats[p].sell_count
            = player_stats[p].trades

\* C4 as stated (up to the row's round(final_price, 6)): final_price is the
\* price of the second-to-last entry, of the single entry when there is
\* one, and 0 when there is none.
C4_FinalPriceOfRow ==
    pc = "done" /\ result.kind = "return" =>
        LET pp == game[1].priceProgression
        IN  result.row.final_price =
                Round6(IF Len(pp) >= 2 THEN pp[Len(pp) - 1].price
                       ELSE IF Len(pp) = 1 THEN pp[1].price
                       ELSE 0)

\* C5 as stated: with at least one trading player and no player of level > 0
\* the function returns a record whose avg_player_level is 0.
C5_NoLevelledPlayer ==
    pc = "done" /\ DOMAIN player_stats # {}
                /\ (\A p \in DOMAIN player_stats : player_stats[p].level <= 0)
        => result.kind = "return" /\ result.row.avg_player_level = 0

\* C9 as stated: the three sub-scores lie in [0,1] before they are combined,
\* and so does the composite, for any finalTick, totalTrades and quantities.
C9_RisksInUnitInterval ==
    pc = "done" /\ result.kind = "return" =>
        /\ InUnitInterval(result.risk.duration_risk)
        /\ InUnitInterval(result.risk.concentration_risk)
        /\ InUnitInterval(result.risk.activity_risk)
        /\ InUnitInterval(result.risk.composite_risk)

(***************************************************************************)
(* Properties of a batch                                                   *)
(***************************************************************************)
ValidGame(l) == l.kind = "dict" /\ l.analysis.kind = "object"

RECURSIVE ValidIds(_)
ValidIds(ls) ==
    IF ls = <<>> THEN <<>>
    ELSE IF ValidGame(Head(ls)) THEN <<Head(ls).gameId>> \o ValidIds(Tail(ls))
    ELSE ValidIds(Tail(ls))

MalformedAt(ls) == {i \in 1..Len(ls) : ls[i].kind = "malformed"}

\* C6 as stated: no exception escapes the per-game loop, whatever value a
\* parsed line gave and whatever error its processing raised.
C6_NoExceptionEscapes == pc # "crashed"

\* C7 as stated: every valid game record gets exactly one row of the
\* player-integrated analysis, with is_instarug = (finalTick < 11).
C7_OneRowPerValidGame ==
    pc = "done" /\ script = "players"
                /\ (\A i \in 1..Len(input) : ValidGame(input[i]))
        => /\ Len(rows) = Len(input)
           /\ \A i \in 1..Len(input) :
                /\ rows[i].gameId = input[i].gameId
                /\ rows[i].is_instarug = (input[i].analysis.finalTick < 11)

\* C8: in the basic analysis a file of N valid game lines and one malformed
\* line, at any position, runs to the end and yields exactly N rows, one per
\* valid line and in their order, with one parse error logged.
C8_MalformedLineSkipped ==
    script = "basic"
      /\ Cardinality(MalformedAt(input)) = 1
      /\ (\A i \in 1..Len(input) \ MalformedAt(input) : ValidGame(input[i]))
      => /\ pc # "crashed"
         /\ pc = "done" =>
              /\ Len(rows) = Len(input) - 1
              /\ [i \in 1..Len(rows) |-> rows[i].gameId] = ValidIds(input)
              /\ log = <<[what |-> "parse"]>>
              /\ outfile = Some([header |-> TRUE, rows |-> rows])

\* C8 witness: the malformed line stands between two valid game lines
C8_Witness ==
    /\ pc = "done"
    /\ script = "basic"
    /\ Len(input) = 3
    /\ MalformedAt(input) = {2}
    /\ ValidGame(input[1]) /\ ValidGame(input[3])
    /\ Len(rows) = 2

\* the processing of a game by the tick analysis raises: the game or its
\* analysis is no object, or an entry of its price progression is none
TickExtractionRaises(g) ==
    \/ ~ValidGame(g)
    \/ \E i \in 1..Len(g.analysis.priceProgression) :
          "kind" \in DOMAIN g.analysis.priceProgression[i]

\* the <<gameId, tick, price>> of one record per price-progression entry of
\* every valid game of the lines whose entries are all objects, line after
\* line and entry after entry
RECURSIVE EntriesInSourceOrder(_)
EntriesInSourceOrder(ls) ==
    IF ls = <<>> THEN <<>>
    ELSE (IF ValidGame(Head(ls)) /\ ~TickExtractionRaises(Head(ls))
          THEN [i \in 1..Len(Head(ls).analysis.priceProgression) |->
                   <<Head(ls).gameId,
                     Head(ls).analysis.priceProgression[i].tick,
                     Round6(Head(ls).analysis.priceProgression[i].price)>>]
          ELSE <<>>)
         \o EntriesInSourceOrder(Tail(ls))

\* C11: the tick-level rows are, in this order, one record per
\* price-progression entry of each game, the i-th record of a game describing
\* its i-th entry whatever the tick numbers are, and the blocks of the games
\* stand in the order of the games in the input.
C11_TickRowsInSourceOrder ==
    script = "ticks" /\ pc \in {"done", "crashed_in_summary"} =>
        [k \in 1..Len(rows) |-> <<rows[k].gameId, rows[k].tick, rows[k].price>>]
            = EntriesInSourceOrder(input)

\* C11 witness: the game with ticks 4, 3, 4 is followed by another game
C11_Witness ==
    /\ script = "ticks"
    /\ pc \in {"done", "crashed_in_summary"}
    /\ Len(input) >= 2
    /\ input[1] = GameE
    /\ input[2] = GameB
    /\ Len(rows) >= 6
    /\ <<rows[1].tick, rows[2].tick, rows[3].tick>> = <<4, 3, 4>>
    /\ rows[4].gameId = "b"

\* C24: in the tick analysis the rows of a game are appended all at once or
\* not at all: a step of the game loop leaves the rows of the earlier games
\* as they are, and for a game whose processing raises, be it at an entry in
\* the middle of its price progression, it appends nothing, no record of the
\* entries before the one that raised.
C24_TickRowsAllOrNothing ==
    [][script = "ticks" /\ gi' = gi + 1 =>
         /\ Len(rows') >= Len(rows)
         /\ SubSeq(rows', 1, Len(rows)) = rows
         /\ TickExtractionRaises(games[gi + 1]) => rows' = rows
         /\ ~TickExtractionRaises(games[gi + 1]) =>
              Len(rows') = Len(rows)
                  + Len(games[gi + 1].analysis.priceProgression)]_vars

\* C24 witness: the game whose third entry raises stands between two games; the
\* table holds the two rows of the first and the row of the last, and the
\* error of the game is logged
C24_Witness ==
    /\ script = "ticks"
    /\ pc \in {"done", "crashed_in_summary"}
    /\ input = <<GameC, GameF, GameA>>
    /\ [k \in 1..Len(rows) |-> rows[k].gameId] = <<"c", "c", "a">>
    /\ log = <<[what |-> "game", gameId |-> "f"]>>

(***************************************************************************)
(* Properties of analyze_player_trading on the events of a file            *)
(***************************************************************************)
\* the trades of the events with every absent or mistyped field, and a data
\* value that is no object, replaced by the neutral defaults
RECURSIVE NeutralTrades(_)
NeutralTrades(events) ==
    IF events = <<>> THEN <<>>
    ELSE (IF Get(Head(events), "eventType", "") # "newTrade" THEN <<>>
          ELSE IF Get(EventData(Head(events)), "kind", "object") # "object"
          THEN <<ReadTrade([eventType |-> "newTrade"])>>
          ELSE <<ReadTrade(Head(events))>>)
         \o NeutralTrades(Tail(events))

\* C12 as stated: no exception leaves analyze_player_trading because of a
\* corrupt trade, and the aggregates it returns are those of the trades with
\* each missing or mistyped field at its neutral default.
C12_CorruptTradeDefaults ==
    /\ pc # "raised"
    /\ pc = "derived" =>
         player_stats = analyze_player_trading(NeutralTrades(game[1].events))

\* the trades of one player among the first n events, in file order
TradesOf(events, n, p) ==
    SelectSeq(SubSeq(events, 1, n),
              LAMBDA e : /\ Get(e, "eventType", "") = "newTrade"
                         /\ Get(EventData(e), "playerId", "unknown") = p)

TickOf(e) == Get(EventData(e), "tickIndex", 0)

Folding == pc \in {"fold", "derived", "done"}

C17_ExitTickIsLargestTick ==
    Folding =>
        \A p \in DOMAIN player_stats :
            LET mine == TradesOf(game[1].events, n_events, p)
            IN  /\ player_stats[p].exit_tick # None
                /\ \A k \in 1..Len(mine) :
                       TickOf(mine[k]) <= player_stats[p].exit_tick[1]
                /\ \E k \in 1..Len(mine) :
                       TickOf(mine[k]) = player_stats[p].exit_tick[1]

\* the distinct player ids among the newTrade events
TradingPlayers(events) ==
    {Get(EventData(events[k]), "playerId", "unknown") :
        k \in {j \in 1..Len(events) :
                  Get(events[j], "eventType", "") = "newTrade"}}

\* C20: in every row the seven pattern counters add up to
\* players_actually_trading, which is the number of distinct player ids among
\* the game's newTrade events.
C20_PatternCountsPartition ==
    pc = "done" /\ result.kind = "return" =>
        /\ result.row.scalpers + result.row.whales + result.row.hodlers
             + result.row.flippers + result.row.early_birds
             + result.row.late_joiners + result.row.regular_traders
               = result.row.players_actually_trading
        /\ result.row.players_actually_trading
               = Cardinality(TradingPlayers(game[1].events))

\* C20 witness: three players, among them a regular trader and a player of another label
C20_Witness ==
    /\ pc = "done"
    /\ result.kind = "return"
    /\ result.row.players_actually_trading >= 2
    /\ result.row.regular_traders >= 1
    /\ result.row.regular_traders < result.row.players_actually_trading

(***************************************************************************)
(* Properties of the tick records of one game                              *)
(***************************************************************************)
\* the positions of the game's newTrade events whose tickIndex is the tick
MatchingTrades(g, tick) ==
    {j \in 1..Len(g.events) :
        /\ Get(g.events[j], "eventType", "") = "newTrade"
        /\ "tickIndex" \in DOMAIN EventData(g.events[j])
        /\ EventData(g.events[j]).tickIndex = tick}

\* C18: in every tick record buy_orders_at_tick and sell_orders_at_tick count
\* the newTrade events of the game at exactly the record's tick by type,
\* volume_at_tick is the sum of their qty, players_active_at_tick the number
\* of their distinct playerIds, net_order_flow is buys - sells and
\* buy_sell_ratio_at_tick is buys / max(sells, 1) to three decimals; no other
\* trade contributes.
C18_TradingActivityAtTick ==
    pc \in {"ticks", "done"} =>
        \A k \in 1..Len(tick_records) :
            LET r == tick_records[k]
                at == MatchingTrades(game[1], r.tick)
                typeOf == [j \in at |->
                              Get(EventData(game[1].events[j]), "type", "")]
                qtyOf == [j \in at |->
                             Get(EventData(game[1].events[j]), "qty", 0)]
                buys == Cardinality({j \in at : typeOf[j] = "buy"})
                sells == Cardinality({j \in at : typeOf[j] = "sell"})
            IN  /\ r.buy_orders_at_tick = buys
                /\ r.sell_orders_at_tick = sells
                /\ r.volume_at_tick * QtyScale = 10000 * SumOver(qtyOf, at)
                /\ r.players_active_at_tick =
                     Cardinality({Get(EventData(game[1].events[j]),
                                      "playerId", "") : j \in at})
                /\ r.net_order_flow = buys - sells
                /\ 2 * Abs(r.buy_sell_ratio_at_tick * Max(sells, 1)
                             - 1000 * buys) <= Max(sells, 1)

\* C18 witness: of two trades by two players one is at the record's tick, the other not
C18_Witness ==
    /\ pc = "done"
    /\ Len(game[1].events) = 2
    /\ \A j \in 1..2 : game[1].events[j].eventType = "newTrade"
    /\ \E k \in 1..Len(tick_records) :
         /\ Cardinality(MatchingTrades(game[1], tick_records[k].tick)) = 1
         /\ tick_records[k].buy_orders_at_tick = 1
         /\ tick_records[k].volume_at_tick = 15000
         /\ tick_records[k].players_active_at_tick = 1

\* C19: the first record of every game, and so the one record of a game
\* with a single price entry, has price_change_1tick, price_change_5tick,
\* price_velocity, rolling_volatility, rolling_avg_change and
\* rolling_max_change all 0; a single entry yields exactly one record.
C19_FirstRecordHasNoMovement ==
    /\ Len(tick_records) >= 1 =>
         /\ tick_records[1].price_change_1tick = 0
         /\ tick_records[1].price_change_5tick = 0
         /\ tick_records[1].price_velocity = 0
         /\ ~tick_records[1].volatility_positive
         /\ tick_records[1].rolling_avg_change = 0
         /\ tick_records[1].rolling_max_change = 0
    /\ pc = "done" /\ script = "tick_progression"
         /\ Len(game[1].analysis.priceProgression) = 1
         => Len(tick_records) = 1

\* C19 witness: the one record of a game with a single price entry of price 2.5000004
C19_Witness ==
    /\ pc = "done"
    /\ script = "tick_progression"
    /\ Len(game[1].analysis.priceProgression) = 1
    /\ Len(tick_records) = 1
    /\ tick_records[1].price = 25000000

(***************************************************************************)
(* Properties of the betting simulations                                   *)
(***************************************************************************)
\* C13 as stated: the bet-window tick count is the integer nearest to
\* bet_window_ms / ms_per_tick (either neighbour at a tie), for every
\* parameter combination.
C13_BetWindowIsNearestInteger ==
    analyzer # None =>
        2 * Abs(analyzer[1].bet_window_ticks * analyzer[1].ms_per_tick
                  - analyzer[1].bet_window_seconds * 1000)
            <= analyzer[1].ms_per_tick

\* C14: in both strategies the bankroll is never negative, a bet is placed
\* only in a state whose bankroll is at least the stake of that bet, and a
\* replay whose bankroll is below the next stake makes no further bet but
\* ends.
C14_BankrollNeverNegative ==
    /\ [](current_bankroll >= 0)
    /\ [][bets_made' # bets_made => current_bankroll >= current_bet]_vars
    /\ [][pc = "loop" /\ current_bankroll < current_bet => pc' = "done"]_vars

\* C14 witness: a martingale replay that ended before the stopping tick because the
\* bankroll no longer covered the escalated stake
C14_Witness ==
    /\ pc = "done"
    /\ strategy = "martingale"
    /\ t < stop_tick
    /\ bets_made > 5
    /\ 0 < current_bankroll /\ current_bankroll < current_bet

LastBetWon ==
    /\ bets_made > 0
    /\ t - analyzer[1].bet_window_ticks < stop_tick
    /\ stop_tick <= t

\* C21: with a bet window of w >= 1 ticks a winning bet is the last bet of its
\* game in both strategies: the win moves the window start t to stop_tick or
\* beyond, and from such a state no bet is placed any more, the replay ends.
\* So at most one bet of a game wins, and the stake reset of a Martingale win
\* is never followed by a bet.
C21_WinningBetIsLast ==
    /\ [][/\ bets_made' = bets_made + 1
          /\ current_bankroll' > current_bankroll
          /\ analyzer[1].bet_window_ticks >= 1
          => t' >= stop_tick]_vars
    /\ [][pc = "loop" /\ t >= stop_tick
          => bets_made' = bets_made /\ pc' = "done"]_vars

\* C21 witness: a Martingale replay that lost twice, won its third bet and ended there
C21_Witness ==
    /\ pc = "done"
    /\ strategy = "martingale"
    /\ analyzer[1].bet_window_ticks >= 1
    /\ bets_made = 3
    /\ current_bankroll
         = bankroll - 2 * initial_bet
             + initial_bet * analyzer[1].payout_multiple
    /\ current_bet = initial_bet
    /\ t >= stop_tick

\* the least integer that is at least a / b, for b > 0
CeilDiv(a, b) == (a + b - 1) \div b

\* C22: the betting loop of a game ends in both strategies, for every
\* stopping tick, bankroll and positive stake; with a window of 0 ticks it
\* ends only by the bankroll falling below the stake, and with a window of
\* w >= 1 ticks it makes at most ceil(stop_tick / w) bets.
C22_ReplayTerminates ==
    /\ pc = "loop" ~> pc = "done"
    /\ [][/\ pc = "loop" /\ pc' = "done"
          /\ analyzer[1].bet_window_ticks = 0
          => current_bankroll < current_bet]_vars
    /\ [](pc \in {"loop", "done"} /\ analyzer[1].bet_window_ticks >= 1
           => bets_made <= CeilDiv(stop_tick, analyzer[1].bet_window_ticks))

\* C22 witness: a replay with a window of 0 ticks that has ended after twenty losing
\* bets of 2 with the window start still at tick 0
C22_Witness ==
    /\ pc = "done"
    /\ strategy = "fixed"
    /\ analyzer[1].bet_window_ticks = 0
    /\ bets_made = 20
    /\ t = 0
    /\ current_bankroll = 0

\* the longest run of losing bets of the game replayed: every bet before
\* the last one lost
LongestLosingRun == IF LastBetWon THEN bets_made - 1 ELSE bets_made

\* C23 as stated: the max_consecutive_losses that simulate_martingale reports
\* for a game is the length of its longest run of consecutive losing bets,
\* k for a game of k losing bets followed by a winning one.
C23_ReportsLongestLosingRun ==
    pc = "done" /\ strategy = "martingale" =>
        result[1].max_consecutive_losses = LongestLosingRun

\* C10 as stated: a run that ends normally has written a table with the
\* header row, also when there is no data row.
C10_HeaderAlwaysWritten ==
    pc = "done" => outfile # None /\ outfile[1].header

====
